---- MODULE Spec2Model ----
(***************************************************************************)
(* scripts/generate_ai_wireframes.py: scan a PRD document for AI-WIREFRAME *)
(* blocks and write one HTML wireframe per block.                          *)
(*                                                                         *)
(* A Python str is a sequence of one-character strings; a dict is a        *)
(* function from keys to values; a filesystem path below the document's    *)
(* directory is the sequence of its components.                            *)
(***************************************************************************)
EXTENDS Integers, Sequences, FiniteSets, TLC

\* ------------------------------------------------------------------ str

NL == "\n"

\* U+0060, the fence character, written by name
Backtick == "[grave]"

Whitespace == {" ", NL, "\t"}

UpperToLower ==
    [c \in {"A", "B", "C", "D", "E", "F", "G", "H", "I", "J", "K", "L", "M",
            "N", "O", "P", "Q", "R", "S", "T", "U", "V", "W", "X", "Y", "Z"} |->
        CASE c = "A" -> "a" [] c = "B" -> "b" [] c = "C" -> "c" [] c = "D" -> "d"
          [] c = "E" -> "e" [] c = "F" -> "f" [] c = "G" -> "g" [] c = "H" -> "h"
          [] c = "I" -> "i" [] c = "J" -> "j" [] c = "K" -> "k" [] c = "L" -> "l"
          [] c = "M" -> "m" [] c = "N" -> "n" [] c = "O" -> "o" [] c = "P" -> "p"
          [] c = "Q" -> "q" [] c = "R" -> "r" [] c = "S" -> "s" [] c = "T" -> "t"
          [] c = "U" -> "u" [] c = "V" -> "v" [] c = "W" -> "w" [] c = "X" -> "x"
          [] c = "Y" -> "y" [] OTHER -> "z"]

lower_char(c) == IF c \in DOMAIN UpperToLower THEN UpperToLower[c] ELSE c

\* str.lower()
lower(s) == [i \in 1..Len(s) |-> lower_char(s[i])]

\* str.strip(chars), with chars given as a set of characters
strip_set(s, chars) ==
    LET keep == {i \in 1..Len(s) : s[i] \notin chars}
    IN  IF keep = {} THEN <<>>
        ELSE SubSeq(s, CHOOSE i \in keep : \A j \in keep : i <= j,
                       CHOOSE i \in keep : \A j \in keep : j <= i)

\* str.strip()
strip(s) == strip_set(s, Whitespace)

\* s.startswith(prefix)
startswith(s, prefix) ==
    /\ Len(prefix) <= Len(s)
    /\ \A k \in 1..Len(prefix) : s[k] = prefix[k]

\* s.find(c) for a single character c: the first index, or 0 when absent
find_char(s, c) ==
    LET at == {i \in 1..Len(s) : s[i] = c}
    IN  IF at = {} THEN 0 ELSE CHOOSE i \in at : \A j \in at : i <= j

\* str.splitlines(), for documents whose line boundary is the newline
RECURSIVE splitlines(_)
splitlines(s) ==
    LET i == find_char(s, NL)
    IN  IF s = <<>> THEN <<>>
        ELSE IF i = 0 THEN <<s>>
        ELSE <<SubSeq(s, 1, i - 1)>> \o splitlines(SubSeq(s, i + 1, Len(s)))

\* ------------------------------------------------------------------ dict

EmptyDict == <<>>

\* result[key] = val
dict_set(d, key, val) ==
    [k \in DOMAIN d \cup {key} |-> IF k = key THEN val ELSE d[k]]

\* block.get(key) or default
get_or(d, key, default) ==
    IF key \in DOMAIN d /\ d[key] # <<>> THEN d[key] ELSE default

\* ------------------------------------------------------------------ keys

K_output_path == <<"o", "u", "t", "p", "u", "t", "_", "p", "a", "t", "h">>
K_type == <<"t", "y", "p", "e">>
K_image_url == <<"i", "m", "a", "g", "e", "_", "u", "r", "l">>
K_notes == <<"n", "o", "t", "e", "s">>
K_name == <<"n", "a", "m", "e">>
K_variant == <<"v", "a", "r", "i", "a", "n", "t">>

S_list_page == <<"l", "i", "s", "t", "_", "p", "a", "g", "e">>
S_detail_page == <<"d", "e", "t", "a", "i", "l", "_", "p", "a", "g", "e">>
S_mobile == <<"m", "o", "b", "i", "l", "e">>
S_http == <<"h", "t", "t", "p", ":", "/", "/">>
S_https == <<"h", "t", "t", "p", "s", ":", "/", "/">>

\* ------------------------------------------------------------------ _parse_key_values

\* One iteration of the loop over content.splitlines().
parse_line(result, raw) ==
    LET line == strip(raw)
        i    == find_char(line, ":")
        key  == strip(SubSeq(line, 1, i - 1))
        val  == strip_set(strip_set(strip(SubSeq(line, i + 1, Len(line))),
                                    {"\""}), {"'"})
    IN  IF line = <<>> \/ line[1] = "#" THEN result
        ELSE IF i = 0 THEN result
        ELSE IF key # <<>> THEN dict_set(result, key, val)
        ELSE result

RECURSIVE parse_lines(_, _)
parse_lines(result, lines) ==
    IF lines = <<>> THEN result
    ELSE parse_lines(parse_line(result, Head(lines)), Tail(lines))

\* _parse_key_values without the "output_path" requirement
_parse_key_values_unchecked(content) ==
    parse_lines(EmptyDict, splitlines(content))

_parse_key_values(content) ==
    LET result == parse_lines(EmptyDict, splitlines(content))
    IN  IF K_output_path \in DOMAIN result THEN result ELSE EmptyDict

\* ------------------------------------------------------------------ parse_blocks

\* The two patterns, both compiled with re.DOTALL | re.IGNORECASE:
\* open, optional whitespace run, tag, lazily captured content, close.
comment_pattern ==
    [open  |-> <<"<", "!", "-", "-">>,
     ws    |-> TRUE,
     tag   |-> <<"a", "i", "-", "w", "i", "r", "e", "f", "r", "a", "m", "e">>,
     close |-> <<"-", "-", ">">>]

code_pattern ==
    [open  |-> <<Backtick, Backtick, Backtick>>,
     ws    |-> FALSE,
     tag   |-> <<"a", "i", "-", "w", "i", "r", "e", "f", "r", "a", "m", "e">>,
     close |-> <<Backtick, Backtick, Backtick>>]

\* re.IGNORECASE: the patterns are matched against the lower-cased text (low),
\* and the captured group is cut from the text itself.

\* the literal lit (lower case) matches at index i
has_literal(low, i, lit) ==
    /\ i + Len(lit) - 1 <= Len(low)
    /\ \A k \in 1..Len(lit) : low[i + k - 1] = lit[k]

\* the index after the whitespace run that starts at i
skip_ws(low, i) ==
    LET stop == {j \in i..Len(low) : low[j] \notin Whitespace}
    IN  IF stop = {} THEN Len(low) + 1
        ELSE CHOOSE j \in stop : \A k \in stop : j <= k

\* the first index >= i where lit matches, or 0
find_literal(low, i, lit) ==
    LET at == {j \in i..(Len(low) - Len(lit) + 1) :
                  low[j] = lit[1] /\ has_literal(low, j, lit)}
    IN  IF at = {} THEN 0 ELSE CHOOSE j \in at : \A k \in at : j <= k

\* pattern.match at index i: group(1) and the end of the match
match_at(text, low, i, pat) ==
    LET a == i + Len(pat.open)
        b == IF pat.ws THEN skip_ws(low, a) ELSE a
        c == b + Len(pat.tag)
        e == find_literal(low, c, pat.close)
    IN  IF has_literal(low, i, pat.open) /\ has_literal(low, b, pat.tag) /\ e # 0
        THEN [ok |-> TRUE, group1 |-> SubSeq(text, c, e - 1), end |-> e + Len(pat.close)]
        ELSE [ok |-> FALSE, group1 |-> <<>>, end |-> 0]

\* pattern.finditer(text) from position pos: the captured contents, in order
RECURSIVE finditer(_, _, _, _)
finditer(pat, text, low, pos) ==
    LET i == find_literal(low, pos, pat.open)
        m == match_at(text, low, i, pat)
    IN  IF i = 0 THEN <<>>
        ELSE IF m.ok THEN <<m.group1>> \o finditer(pat, text, low, m.end)
        ELSE finditer(pat, text, low, i + 1)

\* the loop body shared by both loops: parse, keep the block when truthy
RECURSIVE collect(_)
collect(contents) ==
    IF contents = <<>> THEN <<>>
    ELSE LET block == _parse_key_values(Head(contents))
         IN  (IF block # EmptyDict THEN <<block>> ELSE <<>>) \o collect(Tail(contents))

\* parse_blocks with the code-block loop ahead of the comment loop
parse_blocks_fences_first(text) ==
    LET low == lower(text)
    IN  collect(finditer(code_pattern, text, low, 1))
        \o collect(finditer(comment_pattern, text, low, 1))

parse_blocks(text) ==
    LET low == lower(text)
    IN  collect(finditer(comment_pattern, text, low, 1))
        \o collect(finditer(code_pattern, text, low, 1))

\* ------------------------------------------------------------------ pathlib

\* str.split("/")
RECURSIVE split_slash(_)
split_slash(s) ==
    LET i == find_char(s, "/")
    IN  IF i = 0 THEN <<s>>
        ELSE <<SubSeq(s, 1, i - 1)>> \o split_slash(SubSeq(s, i + 1, Len(s)))

\* base_dir / output_path for a relative output_path: the components below
\* base_dir; pathlib drops empty components and "." components
path_join(output_path) ==
    SelectSeq(split_slash(output_path), LAMBDA c : c # <<>> /\ c # <<".">>)

\* path.parent, below base_dir
parent(path) == IF path = <<>> THEN <<>> ELSE SubSeq(path, 1, Len(path) - 1)

\* the path and the directories above it, up to base_dir excluded
lineage(path) == {SubSeq(path, 1, k) : k \in 1..Len(path)}

\* Path.mkdir(parents=True, exist_ok=True): os.mkdir raises FileExistsError or
\* NotADirectoryError when the path or a directory above it is a regular file
mkdir_raises(path, files) == \E q \in lineage(path) : q \in DOMAIN files

mkdir_parents(path, dirs) == dirs \cup lineage(path)

\* Path.write_text: open(path, "w") raises IsADirectoryError on a directory
write_text_raises(path, dirs) == path \in dirs

\* ------------------------------------------------------------------ assets

A_vertical == <<"v", "e", "r", "t", "i", "c", "a", "l">>
A_landscape == <<"l", "a", "n", "d", "s", "c", "a", "p", "e">>
A_list == <<"l", "i", "s", "t", "-", "t", "h", "u", "m", "b">>

Assets == {A_vertical, A_landscape, A_list}

\* (assets_dir / name).as_uri() if (assets_dir / name).exists() else ""
asset_uri(name, assets) ==
    IF name \in assets
    THEN <<"f", "i", "l", "e", ":", "/", "/", "/">> \o name
    ELSE <<>>

\* next((c for c in candidates if c), "")
first_truthy(candidates) ==
    LET at == {i \in 1..Len(candidates) : candidates[i] # <<>>}
    IN  IF at = {} THEN <<>>
        ELSE candidates[CHOOSE i \in at : \A j \in at : i <= j]

\* ------------------------------------------------------------------ urlopen

\* What urlopen(url) can do: return a response (the default opener hands back
\* only responses it did not turn into HTTPError), or raise.
UrlopenOutcomes ==
    {[raises |-> FALSE, status |-> 200, exc |-> "none"],
     [raises |-> FALSE, status |-> 206, exc |-> "none"],
     [raises |-> TRUE, status |-> 404, exc |-> "HTTPError"],
     [raises |-> TRUE, status |-> 0, exc |-> "URLError"],
     [raises |-> TRUE, status |-> 0, exc |-> "ValueError"]}

\* the outcome handed to a call that does not reach urlopen
NoCall == [raises |-> FALSE, status |-> 200, exc |-> "none"]

\* the scheme test without the "://"
has_url_scheme_prefix_only(s) == startswith(s, <<"h", "t", "t", "p">>)

has_url_scheme(s) == startswith(s, S_http) \/ startswith(s, S_https)

\* ------------------------------------------------------------------ _build_list_page_html

\* the list page's default with the detail page's candidate order
default_thumb_src_hero_order(assets) ==
    first_truthy(<<asset_uri(A_vertical, assets), asset_uri(A_landscape, assets),
                   asset_uri(A_list, assets)>>)

default_thumb_src(assets) ==
    LET vertical_thumb  == asset_uri(A_vertical, assets)
        landscape_thumb == asset_uri(A_landscape, assets)
        list_thumb      == asset_uri(A_list, assets)
    IN  first_truthy(<<list_thumb, vertical_thumb, landscape_thumb>>)

\* thumb_src with an except branch that keeps the URL
list_thumb_src_keeps_url(block, assets, resp) ==
    LET thumb_image_url == get_or(block, K_image_url, <<>>)
    IN  IF thumb_image_url # <<>>
        THEN IF has_url_scheme(thumb_image_url)
             THEN [src |-> thumb_image_url,
                   probes |-> <<[url |-> thumb_image_url, resp |-> resp]>>]
             ELSE [src |-> thumb_image_url, probes |-> <<>>]
        ELSE [src |-> default_thumb_src(assets), probes |-> <<>>]

\* thumb_src, and the urlopen calls made on the way
list_thumb_src(block, assets, resp) ==
    LET thumb_image_url == get_or(block, K_image_url, <<>>)
    IN  IF thumb_image_url # <<>>
        THEN IF has_url_scheme(thumb_image_url)
             THEN [src |-> IF resp.raises THEN default_thumb_src(assets)
                           ELSE IF resp.status < 400 THEN thumb_image_url
                           ELSE <<>>,
                   probes |-> <<[url |-> thumb_image_url, resp |-> resp]>>]
             ELSE [src |-> thumb_image_url, probes |-> <<>>]
        ELSE [src |-> default_thumb_src(assets), probes |-> <<>>]

\* The page, by the fields the template interpolates (the title is interpolated
\* the way the name is).
_build_list_page_html(block, assets, resp) ==
    LET variant == lower(get_or(block, K_variant, S_mobile))
        thumb   == list_thumb_src(block, assets, resp)
    IN  [html |-> [template   |-> "list_page",
                   name       |-> get_or(block, K_name, S_list_page),
                   notes      |-> get_or(block, K_notes, <<>>),
                   page_class |-> IF variant = S_mobile THEN "wf-page--mobile"
                                  ELSE "wf-page--web",
                   img_src    |-> thumb.src,
                   hero       |-> FALSE],
         probes |-> thumb.probes]

\* ------------------------------------------------------------------ _build_detail_page_html

default_hero_src(assets) ==
    LET vertical_hero  == asset_uri(A_vertical, assets)
        landscape_hero == asset_uri(A_landscape, assets)
        list_hero      == asset_uri(A_list, assets)
    IN  first_truthy(<<vertical_hero, landscape_hero, list_hero>>)

\* hero_src, and the urlopen calls made on the way
detail_hero_src(block, assets, resp) ==
    LET hero_image_url == get_or(block, K_image_url, <<>>)
    IN  IF hero_image_url # <<>>
        THEN IF has_url_scheme(hero_image_url)
             THEN [src |-> IF resp.raises THEN default_hero_src(assets)
                           ELSE IF resp.status < 400 THEN hero_image_url
                           ELSE <<>>,
                   probes |-> <<[url |-> hero_image_url, resp |-> resp]>>]
             ELSE [src |-> hero_image_url, probes |-> <<>>]
        ELSE [src |-> default_hero_src(assets), probes |-> <<>>]

\* The hero block is emitted only when hero_src is truthy.
_build_detail_page_html(block, assets, resp) ==
    LET variant == lower(get_or(block, K_variant, S_mobile))
        hero    == detail_hero_src(block, assets, resp)
    IN  [html |-> [template   |-> "detail_page",
                   name       |-> get_or(block, K_name, S_detail_page),
                   notes      |-> get_or(block, K_notes, <<>>),
                   page_class |-> IF variant = S_mobile THEN "wf-page--mobile"
                                  ELSE "wf-page--web",
                   img_src    |-> hero.src,
                   hero       |-> hero.src # <<>>],
         probes |-> hero.probes]

\* ------------------------------------------------------------------ generate_wireframe

\* wf_type without .lower()
wf_type_of_case_sensitive(block) == get_or(block, K_type, S_list_page)

\* (block.get("type") or "list_page").lower()
wf_type_of(block) == lower(get_or(block, K_type, S_list_page))

\* generate_wireframe with the type check ahead of the mkdir
generate_wireframe_type_first(block, dirs, files, assets, resp) ==
    LET same == [dirs |-> dirs, files |-> files, out |-> <<>>, probes |-> <<>>,
                 writes |-> <<>>, exc |-> "none"]
    IN  IF K_output_path \notin DOMAIN block
        THEN [same EXCEPT !.exc = "KeyError"]
        ELSE
        LET output_path == path_join(block[K_output_path])
            wf_type     == lower(get_or(block, K_type, S_list_page))
            made        == mkdir_parents(parent(output_path), dirs)
            built       == IF wf_type = S_list_page
                           THEN _build_list_page_html(block, assets, resp)
                           ELSE _build_detail_page_html(block, assets, resp)
        IN  IF wf_type # S_list_page /\ wf_type # S_detail_page
            THEN [same EXCEPT !.out = <<[tag |-> "skip", path |-> output_path]>>]
            ELSE IF mkdir_raises(parent(output_path), files)
            THEN [same EXCEPT !.exc = "FileExistsError"]
            ELSE IF write_text_raises(output_path, made)
            THEN [same EXCEPT !.dirs = made, !.probes = built.probes,
                              !.exc = "IsADirectoryError"]
            ELSE [same EXCEPT !.dirs = made, !.probes = built.probes,
                              !.files = [p \in DOMAIN files \cup {output_path} |->
                                            IF p = output_path THEN built.html
                                            ELSE files[p]],
                              !.writes = <<[path |-> output_path, html |-> built.html]>>,
                              !.out = <<[tag |-> "ok", path |-> output_path]>>]

\* The effects of one call on the filesystem (dirs, files), the console (out),
\* the network (probes) and the write events (writes); exc names the exception
\* that leaves the call, "none" when it returns.
generate_wireframe(block, dirs, files, assets, resp) ==
    LET same == [dirs |-> dirs, files |-> files, out |-> <<>>, probes |-> <<>>,
                 writes |-> <<>>, exc |-> "none"]
    IN  IF K_output_path \notin DOMAIN block
        THEN [same EXCEPT !.exc = "KeyError"]
        ELSE
        LET output_path == path_join(block[K_output_path])
            wf_type     == wf_type_of(block)
            made        == mkdir_parents(parent(output_path), dirs)
            built       == IF wf_type = S_list_page
                           THEN _build_list_page_html(block, assets, resp)
                           ELSE _build_detail_page_html(block, assets, resp)
        IN  IF mkdir_raises(parent(output_path), files)
            THEN [same EXCEPT !.exc = "FileExistsError"]
            ELSE IF wf_type # S_list_page /\ wf_type # S_detail_page
            THEN [same EXCEPT !.dirs = made,
                              !.out = <<[tag |-> "skip", path |-> output_path]>>]
            ELSE IF write_text_raises(output_path, made)
            THEN [same EXCEPT !.dirs = made, !.probes = built.probes,
                              !.exc = "IsADirectoryError"]
            ELSE [same EXCEPT !.dirs = made, !.probes = built.probes,
                              !.files = [p \in DOMAIN files \cup {output_path} |->
                                            IF p = output_path THEN built.html
                                            ELSE files[p]],
                              !.writes = <<[path |-> output_path, html |-> built.html]>>,
                              !.out = <<[tag |-> "ok", path |-> output_path]>>]

\* ------------------------------------------------------------------ documents

\* A document is laid out as a sequence of regions; a region is a body of
\* key/value lines in one of the forms of parse_blocks' docstring: an HTML
\* comment, a fenced code block, or a fenced block inside a comment (matched
\* by both patterns, with the tags in the other letter case).
render_line(kv) == kv[1] \o <<":", " ">> \o kv[2] \o <<NL>>

RECURSIVE render_body(_)
render_body(body) ==
    IF body = <<>> THEN <<>> ELSE render_line(Head(body)) \o render_body(Tail(body))

CommentOpen ==
    <<"<", "!", "-", "-", " ", "A", "I", "-", "W", "I", "R", "E", "F", "R", "A", "M", "E", NL>>
CommentOpenLower ==
    <<"<", "!", "-", "-", " ", " ", "a", "i", "-", "w", "i", "r", "e", "f", "r", "a", "m", "e", NL>>
CommentClose == <<"-", "-", ">", NL>>
FenceOpen ==
    <<Backtick, Backtick, Backtick, "a", "i", "-", "w", "i", "r", "e", "f", "r", "a", "m", "e", NL>>
FenceOpenUpper ==
    <<Backtick, Backtick, Backtick, "A", "I", "-", "W", "I", "R", "E", "F", "R", "A", "M", "E", NL>>
FenceClose == <<Backtick, Backtick, Backtick, NL>>

render_region(r) ==
    CASE r.form = "comment" -> CommentOpen \o render_body(r.body) \o CommentClose
      [] r.form = "fence"   -> FenceOpen \o render_body(r.body) \o FenceClose
      [] OTHER              -> CommentOpenLower \o FenceOpenUpper \o render_body(r.body)
                               \o FenceClose \o CommentClose

RECURSIVE render_document(_)
render_document(regions) ==
    IF regions = <<>> THEN <<>>
    ELSE render_region(Head(regions)) \o render_document(Tail(regions))

\* ------------------------------------------------------------------ state

VARIABLES
    argv,       \* sys.argv[1:], as paths below the working directory
    layout,     \* the regions the document on disk was rendered from
    assets,     \* the placeholder files that exist in the skill's assets directory
    dirs,       \* the directories that exist at or below base_dir
    files,      \* the regular files below base_dir, with their contents
    pc,         \* "start", "loop" (inside main's for loop) or "exit"
    blocks,     \* main's blocks
    idx,        \* the position of the for loop in blocks
    out,        \* the lines printed
    probes,     \* the urlopen calls made, each with what it did
    writes,     \* the write_text calls that wrote, in order
    exitCode,   \* the exit status once pc = "exit" (-1 before)
    exc         \* the uncaught exception that ended the process, or "none"

vars == <<argv, layout, assets, dirs, files, pc, blocks, idx, out, probes, writes,
          exitCode, exc>>

PrdPath == <<<<"p", "r", "d">>>>

BaseDir == <<>>

NoFiles == <<>>

\* ------------------------------------------------------------------ main

\* main() up to the for loop: the usage check, the is_file check, the read and
\* parse_blocks, and the exit when no block is found.
main_head(args, fs) ==
    IF Len(args) + 1 # 2
    THEN [pc |-> "exit", exitCode |-> 1, blocks |-> <<>>,
          out |-> <<[tag |-> "usage", path |-> <<>>]>>]
    ELSE IF args[1] \notin DOMAIN fs
    THEN [pc |-> "exit", exitCode |-> 1, blocks |-> <<>>,
          out |-> <<[tag |-> "error", path |-> args[1]]>>]
    ELSE LET found == parse_blocks(fs[args[1]])
         IN  IF found = <<>>
             THEN [pc |-> "exit", exitCode |-> 0, blocks |-> <<>>,
                   out |-> <<[tag |-> "info", path |-> <<>>]>>]
             ELSE [pc |-> "loop", exitCode |-> -1, blocks |-> found, out |-> <<>>]

Main ==
    /\ pc = "start"
    /\ LET r == main_head(argv, files)
       IN  /\ pc' = r.pc
           /\ exitCode' = r.exitCode
           /\ blocks' = r.blocks
           /\ out' = out \o r.out
    /\ idx' = 1
    /\ UNCHANGED <<argv, layout, assets, dirs, files, probes, writes, exc>>

\* what the network can answer during one call: something only when the call
\* reaches a builder with an image_url that carries a URL scheme
outcomes_for(block) ==
    IF /\ wf_type_of(block) \in {S_list_page, S_detail_page}
       /\ has_url_scheme(get_or(block, K_image_url, <<>>))
    THEN UrlopenOutcomes
    ELSE {NoCall}

\* One iteration of "for block in blocks: generate_wireframe(block, base_dir)".
\* An exception leaving the call is caught nowhere: the interpreter prints the
\* traceback and the process exits with status 1.
GenerateWireframe ==
    /\ pc = "loop"
    /\ idx <= Len(blocks)
    /\ \E resp \in outcomes_for(blocks[idx]) :
         LET r == generate_wireframe(blocks[idx], dirs, files, assets, resp)
         IN  /\ dirs' = r.dirs
             /\ files' = r.files
             /\ out' = out \o r.out
             /\ probes' = probes \o r.probes
             /\ writes' = writes \o r.writes
             /\ exc' = r.exc
             /\ pc' = IF r.exc = "none" THEN "loop" ELSE "exit"
             /\ exitCode' = IF r.exc = "none" THEN exitCode ELSE 1
             /\ idx' = IF r.exc = "none" THEN idx + 1 ELSE idx
    /\ UNCHANGED <<argv, layout, assets, blocks>>

\* The for loop is exhausted and main returns: exit status 0.
MainReturn ==
    /\ pc = "loop"
    /\ idx > Len(blocks)
    /\ pc' = "exit"
    /\ exitCode' = 0
    /\ UNCHANGED <<argv, layout, assets, dirs, files, blocks, idx, out, probes, writes, exc>>

Next == Main \/ GenerateWireframe \/ MainReturn

\* the state the process starts in, for a given command line, document and assets
Start(args, regions, present, exists) ==
    /\ argv = args
    /\ layout = regions
    /\ assets = present
    /\ dirs = {BaseDir}
    /\ files = IF exists THEN (PrdPath :> render_document(regions)) ELSE NoFiles
    /\ pc = "start"
    /\ blocks = <<>>
    /\ idx = 1
    /\ out = <<>>
    /\ probes = <<>>
    /\ writes = <<>>
    /\ exitCode = -1
    /\ exc = "none"

\* ------------------------------------------------------------------ inputs

MaxRegions == 3

MaxValueLen == 3

V_a == <<"a">>
V_ab == <<"a", "/", "b">>
V_dc == <<"d", "/", "c">>
V_x == <<"x">>
V_Detail == <<"D", "e", "t", "a", "i", "l", "_", "P", "a", "g", "e">>

B_a    == << <<K_output_path, V_a>> >>
B_abx  == << <<K_type, V_x>>, <<K_output_path, V_ab>> >>
B_dc   == << <<K_output_path, V_dc>>, <<K_type, V_Detail>> >>
B_none == << <<K_type, S_list_page>> >>

\* the regions the documents of Spec are made of
Regions ==
    {[form |-> "comment", body |-> B_abx],
     [form |-> "comment", body |-> B_dc],
     [form |-> "comment", body |-> B_none],
     [form |-> "fence",   body |-> B_a],
     [form |-> "fence",   body |-> B_dc],
     [form |-> "fence",   body |-> B_none],
     [form |-> "both",    body |-> B_a]}

Layouts == UNION {[1..k -> Regions] : k \in 0..MaxRegions}

\* Every command line; every document of at most MaxRegions regions when the
\* command line names the document and it exists.
Init ==
    \E args \in {<<>>, <<PrdPath>>, <<PrdPath, PrdPath>>}, exists \in BOOLEAN :
        \E regions \in (IF args = <<PrdPath>> /\ exists THEN Layouts ELSE {<<>>}) :
            Start(args, regions, Assets, exists)

Spec == Init /\ [][Next]_vars

\* One block per document, over the image references, the page types and the
\* placeholder files present.
U_http == S_http \o <<"h">>
U_https == S_https \o <<"h">>
U_local == <<"i", ".", "p", "n", "g">>
U_httpx == <<"h", "t", "t", "p", "x">>
U_HTTP == <<"H", "T", "T", "P", ":", "/", "/", "h">>

ImageUrls == {<<>>, U_http, U_https, U_local, U_httpx, U_HTTP}

InitImage ==
    \E t \in {S_list_page, S_detail_page}, u \in ImageUrls, present \in SUBSET Assets :
        Start(<<PrdPath>>,
              <<[form |-> "fence",
                 body |-> << <<K_output_path, V_a>>, <<K_type, t>>, <<K_image_url, u>> >>]>>,
              present, TRUE)

SpecImage == InitImage /\ [][Next]_vars

\* One block per document, over the values a notes line can carry: every string
\* of at most MaxValueLen characters among the two quotes, a letter and a space.
QuoteChars == {"\"", "'", "a", " "}

RawValues == UNION {[1..k -> QuoteChars] : k \in 0..MaxValueLen}

InitValues ==
    \E raw \in RawValues :
        Start(<<PrdPath>>,
              <<[form |-> "fence",
                 body |-> << <<K_output_path, V_a>>, <<K_notes, raw>> >>]>>,
              Assets, TRUE)

SpecValues == InitValues /\ [][Next]_vars

\* ------------------------------------------------------------------ properties

\* the input file was opened and read: the command line names one path, a file
Read == Len(argv) = 1 /\ argv[1] \in DOMAIN files

HasKey(body, key) == \E i \in 1..Len(body) : body[i][1] = key

\* the mapping a body of plain key/value lines stands for (later lines win)
RECURSIVE BodyDict(_)
BodyDict(body) ==
    IF body = <<>> THEN EmptyDict
    ELSE LET kv == body[Len(body)]
             d  == BodyDict(SubSeq(body, 1, Len(body) - 1))
         IN  [k \in DOMAIN d \cup {kv[1]} |-> IF k = kv[1] THEN kv[2] ELSE d[k]]

CommentForms == {"comment", "both"}

FenceForms == {"fence", "both"}

\* the regions of the given forms that carry output_path, in document order
Retained(regions, forms) ==
    SelectSeq(regions, LAMBDA r : r.form \in forms /\ HasKey(r.body, K_output_path))

DictsOf(regions) == [i \in 1..Len(regions) |-> BodyDict(regions[i].body)]

\* the type of a block as section 4.6 reads it: case-insensitive, list_page
\* when absent or empty
TypeOf(block) ==
    IF K_type \in DOMAIN block /\ block[K_type] # <<>>
    THEN lower(block[K_type]) ELSE S_list_page

Supported(block) == TypeOf(block) \in {S_list_page, S_detail_page}

PathOf(block) == path_join(block[K_output_path])

WrittenPaths == [i \in 1..Len(writes) |-> writes[i].path]

\* C1: a tagged block whose body has no output_path key is dropped by
\* parse_blocks: every block main holds carries output_path, main holds exactly
\* one block per match that carries it, and a document whose tagged regions all
\* lack it ends with status 0, nothing written, nothing created, no exception.
C1_BlockWithoutOutputPathDropped ==
    (pc # "start" /\ Read) =>
        /\ \A i \in 1..Len(blocks) : K_output_path \in DOMAIN blocks[i]
        /\ Len(blocks) = Len(Retained(layout, CommentForms)) + Len(Retained(layout, FenceForms))
        /\ (\A i \in 1..Len(layout) : ~HasKey(layout[i].body, K_output_path)) =>
              /\ blocks = <<>>
              /\ pc = "exit"
              /\ exitCode = 0
              /\ exc = "none"
              /\ writes = <<>>
              /\ dirs = {BaseDir}
              /\ DOMAIN files = {PrdPath}

\* C1 witness: a run over a document with a tagged region without output_path
\* in each form, next to a block that was written, has ended with status 0.
C1_Witness ==
    /\ pc = "exit"
    /\ exitCode = 0
    /\ Len(layout) = 3
    /\ \E i, j \in 1..3 :
          /\ layout[i] = [form |-> "comment", body |-> B_none]
          /\ layout[j] = [form |-> "fence", body |-> B_none]
    /\ Len(blocks) = 1
    /\ Len(writes) = 1

\* C2: once the input file has been read no block is fatal: the run ends with
\* exit status 0, having processed every block.
C2_NoBlockIsFatal ==
    (pc = "exit" /\ Read) =>
        /\ exitCode = 0
        /\ blocks # <<>> => idx = Len(blocks) + 1

\* C3: at the end of a run, a block of unsupported type has written no file and
\* has its skip notice, and every other block of the document with a supported
\* type has its file written.
C3_UnsupportedSkippedOthersWritten ==
    (pc = "exit" /\ Read) =>
        \A i \in 1..Len(blocks) :
            ~Supported(blocks[i]) =>
                /\ i <= Len(out)
                /\ out[i] = [tag |-> "skip", path |-> PathOf(blocks[i])]
                /\ Len(writes) = Cardinality({k \in 1..Len(out) : out[k].tag = "ok"})
                /\ \A j \in 1..Len(blocks) :
                      (j # i /\ Supported(blocks[j])) =>
                          /\ j <= Len(out)
                          /\ out[j] = [tag |-> "ok", path |-> PathOf(blocks[j])]
                          /\ PathOf(blocks[j]) \in DOMAIN files

\* C4, as stated: no two write events of a run go to the same path.
C4_EachPathWrittenAtMostOnce ==
    \A i, j \in 1..Len(writes) : i # j => writes[i].path # writes[j].path

\* C4, amended: every processed block of supported type causes exactly one
\* write event, to its own resolved path, in processing order; so a path is
\* written once for each such block that carries it.
C4_OneWritePerProcessedBlock ==
    pc # "start" =>
        LET done == SubSeq(blocks, 1, idx - 1)
            wrote == SelectSeq(done, Supported)
        IN  WrittenPaths = [i \in 1..Len(wrote) |-> PathOf(wrote[i])]

\* C4 witness: one region matched by both forms has been written twice.
C4_Witness ==
    /\ pc = "exit"
    /\ Len(layout) = 1
    /\ layout[1].form = "both"
    /\ Len(writes) = 2
    /\ writes[1].path = writes[2].path

\* C8: blocks holds the retained comment-form blocks in document order, then
\* the retained fenced-form blocks in document order, and the driver reports
\* them in that order, one line per block processed.
C8_CommentBlocksBeforeFencedBlocks ==
    (pc # "start" /\ Read) =>
        /\ blocks = DictsOf(Retained(layout, CommentForms))
                    \o DictsOf(Retained(layout, FenceForms))
        /\ blocks # <<>> =>
              /\ Len(out) = idx - 1
              /\ \A i \in 1..Len(out) : out[i].path = PathOf(blocks[i])

\* C8 witness: a fenced block that comes first in the document was processed
\* after two comment blocks that follow it.
C8_Witness ==
    /\ pc = "exit"
    /\ exc = "none"
    /\ layout = <<[form |-> "fence", body |-> B_dc],
                  [form |-> "comment", body |-> B_abx],
                  [form |-> "comment", body |-> B_dc]>>
    /\ Len(out) = 3
    /\ out[1].tag = "skip"
    /\ out[3].tag = "ok"

ImageUrl == layout[1].body[3][2]

IsRemote(url) == startswith(url, S_http) \/ startswith(url, S_https)

FileUri(name) == <<"f", "i", "l", "e", ":", "/", "/", "/">> \o name

\* the first asset of order that exists, as a file URI, or the empty string
FirstExisting(order) ==
    IF order[1] \in assets THEN FileUri(order[1])
    ELSE IF order[2] \in assets THEN FileUri(order[2])
    ELSE IF order[3] \in assets THEN FileUri(order[3])
    ELSE <<>>

\* the image source the page of this block has when its image_url is empty
EmptyUrlSrc(block) ==
    LET unset == [k \in DOMAIN block |-> IF k = K_image_url THEN <<>> ELSE block[k]]
    IN  IF TypeOf(block) = S_list_page
        THEN _build_list_page_html(unset, assets, NoCall).html.img_src
        ELSE _build_detail_page_html(unset, assets, NoCall).html.img_src

\* C5: for an image_url with an http:// or https:// prefix the page was built
\* after one probe of that URL; a response with status below 400 leaves the
\* URL as the image source, and a probe that raised leaves exactly the source
\* an empty image_url resolves to, never the URL.
C5_RemoteImageProbedWithFallback ==
    (Len(writes) = 1 /\ IsRemote(ImageUrl)) =>
        LET page == writes[1].html
        IN  /\ files[writes[1].path] = page
            /\ Len(probes) = 1
            /\ probes[1].url = ImageUrl
            /\ (~probes[1].resp.raises /\ probes[1].resp.status < 400) =>
                  page.img_src = ImageUrl
            /\ probes[1].resp.raises =>
                  /\ page.img_src = EmptyUrlSrc(blocks[1])
                  /\ page.img_src # ImageUrl

\* C5 witness: a list page was written after the probe of an https URL raised,
\* with the landscape placeholder, the only one present, as its image source.
C5_Witness ==
    /\ pc = "exit"
    /\ ImageUrl = U_https
    /\ assets = {A_landscape}
    /\ Len(probes) = 1
    /\ probes[1].resp.exc = "URLError"
    /\ Len(writes) = 1
    /\ writes[1].html.template = "list_page"
    /\ writes[1].html.img_src = FileUri(A_landscape)

\* C6: for an empty image_url the list page's thumbnail is the first existing
\* asset in the order list-thumbnail, vertical, landscape, the detail page's
\* hero the first existing in the order vertical, landscape, list-thumbnail,
\* and each is the empty string when no asset exists; no probe is made.
C6_PlaceholderCandidateOrder ==
    (Len(writes) = 1 /\ ImageUrl = <<>>) =>
        /\ probes = <<>>
        /\ files[writes[1].path] = writes[1].html
        /\ writes[1].html.img_src =
              IF writes[1].html.template = "list_page"
              THEN FirstExisting(<<A_list, A_vertical, A_landscape>>)
              ELSE FirstExisting(<<A_vertical, A_landscape, A_list>>)

\* C6 witness: with the vertical placeholder missing, a list page was written
\* with the list-thumbnail placeholder.
C6_Witness ==
    /\ pc = "exit"
    /\ ImageUrl = <<>>
    /\ assets = {A_landscape, A_list}
    /\ Len(writes) = 1
    /\ writes[1].html.template = "list_page"
    /\ writes[1].html.img_src = FileUri(A_list)

\* C7: for a non-empty image_url without an http:// or https:// prefix no
\* probe is made at any point of the run, and the page written has that string
\* unchanged as its image source, whatever placeholder assets exist.
C7_LocalReferenceVerbatimNoProbe ==
    (ImageUrl # <<>> /\ ~IsRemote(ImageUrl)) =>
        /\ probes = <<>>
        /\ Len(writes) = 1 =>
              /\ writes[1].html.img_src = ImageUrl
              /\ files[writes[1].path] = writes[1].html

\* C7 witness: a detail page was written for the reference "httpx", with all
\* placeholders present and no probe made.
C7_Witness ==
    /\ pc = "exit"
    /\ ImageUrl = U_httpx
    /\ assets = Assets
    /\ probes = <<>>
    /\ Len(writes) = 1
    /\ writes[1].html.template = "detail_page"
    /\ writes[1].html.img_src = U_httpx

\* ------------------------------------------------------------------ properties of SpecValues

\* the value written after "notes: " in the one block of a SpecValues document
RawNotes == layout[1].body[2][2]

Quotes == {"\"", "'"}

\* one matching layer of surrounding quotes removed from the trimmed text
OneLayerStripped(t) ==
    IF Len(t) >= 2 /\ t[1] \in Quotes /\ t[Len(t)] = t[1]
    THEN SubSeq(t, 2, Len(t) - 1)
    ELSE t

\* C9: the value stored for a line is the text after the first separator,
\* trimmed, with one matching layer of surrounding quotes removed when it
\* begins and ends with the same quote character, and unchanged otherwise (a
\* value that is a single quote character may be kept or emptied).
C9_OneMatchingQuoteLayerStripped ==
    (pc # "start" /\ Len(blocks) = 1) =>
        LET t == strip(<<" ">> \o RawNotes)
        IN  IF Len(t) = 1 /\ t[1] \in Quotes
            THEN blocks[1][K_notes] \in {t, <<>>}
            ELSE blocks[1][K_notes] = OneLayerStripped(t)

====
